---------------------------- MODULE Spec2Model ----------------------------
(***************************************************************************)
(* Car marketplace server: the socket.io room layer (src/socket.ts), the   *)
(* listing handlers (the cars router in src/routes/upload.ts), the vendor  *)
(* bulk update (the vendors router in src/routes/auth.ts) and the          *)
(* notification services they call.                                        *)
(*                                                                         *)
(* Strings whose characters matter (room names, ids, client-chosen city /  *)
(* state / make arguments) are sequences of one-character strings, so that *)
(* template-literal concatenation and toLowerCase() are computed.          *)
(***************************************************************************)
EXTENDS Integers, Sequences, FiniteSets, TLC

VARIABLES
    sockets,    \* socket.io connections: [open, user (socket.data.user), rooms]
    cars,       \* the Car collection: car id -> document, or NoCar
    nextId,     \* the next fresh _id the store hands out
    req,        \* the request / socket event handled last: name, target, caller
    emitted,    \* the events the last handler published, in order
    res,        \* the HTTP response of the last handler
    messages,   \* the Message collection: documents [id, userId]
    calls       \* inquiry requests suspended at an await: call -> [pc, ...]

vars == <<sockets, cars, nextId, req, emitted, res, messages, calls>>

-----------------------------------------------------------------------------
(* Strings *)

\* String.prototype.toLowerCase on one character (the alphabet in use)
LowerChar(ch) ==
    CASE ch = "A" -> "a" [] ch = "B" -> "b" [] ch = "C" -> "c"
      [] ch = "E" -> "e" [] ch = "I" -> "i" [] ch = "K" -> "k"
      [] ch = "L" -> "l" [] ch = "R" -> "r" [] ch = "S" -> "s"
      [] ch = "U" -> "u" [] ch = "V" -> "v"
      [] OTHER -> ch

ToLower(s) == [i \in 1..Len(s) |-> LowerChar(s[i])]

-----------------------------------------------------------------------------
(* Users and tokens *)

\* Two registered users; _id values are lower-case hex strings (ObjectId)
VendorId == <<"a", "1">>
BuyerId  == <<"b", "2">>
UserIds  == {VendorId, BuyerId}

\* User.role, enum ['user', 'vendor']
RoleOf(id) == IF id = VendorId THEN "vendor" ELSE "user"

NoUser == [id |-> <<>>, role |-> "none"]

\* jwt.sign({ id, email, role }): what a valid token decodes to
Decoded(id) == [id |-> id, role |-> RoleOf(id)]

\* handshake.auth.token: absent, one that jwt.verify rejects, or a valid one
NoToken  == [kind |-> "none", id |-> <<>>]
BadToken == [kind |-> "bad", id |-> <<>>]
ValidToken(id) == [kind |-> "valid", id |-> id]
Tokens == {NoToken, BadToken} \cup {ValidToken(id) : id \in UserIds}

-----------------------------------------------------------------------------
(* Rooms (src/socket.ts) *)

SocketIds == {"s1", "s2"}

UserRoom(id) == <<"u", "s", "e", "r", "_">> \o id
LocationRoom(city, state) == ToLower(city \o <<"_">> \o state)
MakeRoom_CaseSensitive(make) == <<"m", "a", "k", "e", "_">> \o make

MakeRoom(make) == <<"m", "a", "k", "e", "_">> \o ToLower(make)
BodyTypeRoom(bt) == <<"b", "o", "d", "y", "T", "y", "p", "e", "_">> \o ToLower(bt)
AdminRoom == <<"a", "d", "m", "i", "n", "s">>
PriceAlertRoom(id) ==
    <<"p", "r", "i", "c", "e", "A", "l", "e", "r", "t", "_">> \o id
\* io.emit: every connected socket
Everyone == <<"*">>

ClosedSocket == [open |-> FALSE, user |-> NoUser, rooms |-> {}]

Members_OpenOnly(room) == {s \in SocketIds : sockets[s].open}

\* the sockets io.to(room) addresses at call time
Members(room) ==
    {s \in SocketIds : sockets[s].open
                       /\ (room = Everyone \/ room \in sockets[s].rooms)}

\* io.to(room).emit(event, data)
Emit(room, event, data) ==
    [event |-> event, room |-> room, to |-> Members(room), data |-> data]

emitToLocation(city, state, event, data) == Emit(LocationRoom(city, state), event, data)
emitToMakeInterests(make, event, data) == Emit(MakeRoom(make), event, data)
emitToUser(userId, event, data) == Emit(UserRoom(userId), event, data)

\* socket.join(room)
Join(s, rs) == [sockets EXCEPT ![s].rooms = @ \cup rs]

NoReq == [op |-> "none"]
NoRes == [status |-> 0]
NoCar == [exists |-> FALSE]
\* no inquiry request is suspended
NoCalls == <<>>

StoreUnchanged == UNCHANGED <<cars, nextId, messages, calls>>

-----------------------------------------------------------------------------
(* Socket events (src/socket.ts, io.use and io.on('connection')) *)

\* what clients send as joinLocation / joinInterests arguments
ClientLocations ==
    { [city |-> <<"L", "A">>, state |-> <<"C", "A">>],
      [city |-> <<"u", "s", "e", "r">>, state |-> VendorId] }
ClientMakes == {<<"K", "I", "A">>}
ClientBodyTypes == {<<"S", "U", "V">>}

Authenticate_TrustAny(tok) ==
    IF tok.kind # "none" THEN Decoded(tok.id) ELSE NoUser

\* io.use middleware: the identity a handshake token yields
Authenticate(tok) == IF tok.kind = "valid" THEN Decoded(tok.id) ELSE NoUser

Connect(s, tok) ==
    /\ ~sockets[s].open
    /\ LET u == Authenticate(tok) IN
         sockets' = [sockets EXCEPT ![s] =
                        [open |-> TRUE, user |-> u,
                         rooms |-> IF u # NoUser THEN {UserRoom(u.id)} ELSE {}]]
    /\ req' = [op |-> "connect", socket |-> s]
    /\ emitted' = <<>>
    /\ res' = NoRes
    /\ StoreUnchanged

JoinLocation(s, loc) ==
    /\ sockets[s].open
    /\ sockets' = Join(s, {LocationRoom(loc.city, loc.state)})
    /\ req' = [op |-> "joinLocation", socket |-> s]
    /\ emitted' = <<>>
    /\ res' = NoRes
    /\ StoreUnchanged

JoinInterests(s, makes, bodyTypes) ==
    /\ sockets[s].open
    /\ sockets' = Join(s, {MakeRoom(m) : m \in makes}
                           \cup {BodyTypeRoom(b) : b \in bodyTypes})
    /\ req' = [op |-> "joinInterests", socket |-> s]
    /\ emitted' = <<>>
    /\ res' = NoRes
    /\ StoreUnchanged

\* socket.emit('searchSuggestions', ...): to the sender alone
LiveSearch(s) ==
    /\ sockets[s].open
    /\ emitted' = << [event |-> "searchSuggestions", room |-> <<>>, to |-> {s},
                      data |-> [suggestions |-> <<>>]] >>
    /\ req' = [op |-> "liveSearch", socket |-> s]
    /\ res' = NoRes
    /\ UNCHANGED sockets
    /\ StoreUnchanged

\* socket.broadcast.emit('newMessage', messageData): everyone but the sender
SendMessage(s) ==
    /\ sockets[s].open
    /\ emitted' = << [event |-> "newMessage", room |-> Everyone,
                      to |-> Members(Everyone) \ {s},
                      data |-> [from |-> s]] >>
    /\ req' = [op |-> "sendMessage", socket |-> s]
    /\ res' = NoRes
    /\ UNCHANGED sockets
    /\ StoreUnchanged

JoinAdminRoom(s) ==
    /\ sockets[s].open
    /\ sockets' = IF sockets[s].user # NoUser /\ sockets[s].user.role = "vendor"
                  THEN Join(s, {AdminRoom}) ELSE sockets
    /\ req' = [op |-> "joinAdminRoom", socket |-> s]
    /\ emitted' = <<>>
    /\ res' = NoRes
    /\ StoreUnchanged

JoinUserRoom(s) ==
    /\ sockets[s].open
    /\ sockets' = IF sockets[s].user # NoUser
                  THEN Join(s, {UserRoom(sockets[s].user.id)}) ELSE sockets
    /\ req' = [op |-> "joinUserRoom", socket |-> s]
    /\ emitted' = <<>>
    /\ res' = NoRes
    /\ StoreUnchanged

SetPriceAlert(s) ==
    /\ sockets[s].open
    /\ sockets' = IF sockets[s].user # NoUser
                  THEN Join(s, {PriceAlertRoom(sockets[s].user.id)}) ELSE sockets
    /\ req' = [op |-> "setPriceAlert", socket |-> s]
    /\ emitted' = <<>>
    /\ res' = NoRes
    /\ StoreUnchanged

Disconnect_KeepRooms(s) ==
    /\ sockets[s].open
    /\ sockets' = [sockets EXCEPT ![s].open = FALSE]
    /\ req' = [op |-> "disconnect", socket |-> s]
    /\ emitted' = <<>>
    /\ res' = NoRes
    /\ StoreUnchanged

\* socket.io removes a disconnected socket from every room
Disconnect(s) ==
    /\ sockets[s].open
    /\ sockets' = [sockets EXCEPT ![s] = ClosedSocket]
    /\ req' = [op |-> "disconnect", socket |-> s]
    /\ emitted' = <<>>
    /\ res' = NoRes
    /\ StoreUnchanged

\* a service calling one of the exported emit helpers
PublishToUser(userId) ==
    /\ emitted' = << emitToUser(userId, "notification", [userId |-> userId]) >>
    /\ req' = [op |-> "emitToUser"]
    /\ res' = NoRes
    /\ UNCHANGED sockets
    /\ StoreUnchanged

PublishToLocation(loc) ==
    /\ emitted' = << emitToLocation(loc.city, loc.state, "notification", [loc |-> loc]) >>
    /\ req' = [op |-> "emitToLocation"]
    /\ res' = NoRes
    /\ UNCHANGED sockets
    /\ StoreUnchanged

PublishToMake(make) ==
    /\ emitted' = << emitToMakeInterests(make, "notification", [make |-> make]) >>
    /\ req' = [op |-> "emitToMakeInterests"]
    /\ res' = NoRes
    /\ UNCHANGED sockets
    /\ StoreUnchanged

-----------------------------------------------------------------------------
(* The Car collection (src/models/Car.ts) *)

CarIds == {1, 2}

\* carSchema.status enum
Statuses == {"active", "sold", "pending", "inactive"}

\* soldAt: Date with no default: undefined until something assigns it
NoDate == -1

\* caps on the $inc counters and on the length of priceHistory
MaxViews == 1
MaxFavorites == 1
MaxInquiries == 6
MaxHistory == 3

\* the listing attributes a create request carries (make, location)
Listing == [make |-> <<"K", "i", "a">>, city |-> <<"L", "A">>, state |-> <<"C", "A">>]

\* new Car({...}) with the schema defaults; _id and listedAt (Date.now,
\* non-decreasing) are both taken from the creation order
NewCar(id, seller, price) ==
    [exists |-> TRUE, seller |-> seller,
     make |-> Listing.make, city |-> Listing.city, state |-> Listing.state,
     price |-> price, priceHistory |-> <<price>>,
     status |-> "active", views |-> 0, inquiries |-> 0, favorites |-> 0,
     listedAt |-> id, soldAt |-> NoDate]

\* Object.assign(car, updateData): every schema path present in the body
Assign(doc, body) ==
    [f \in DOMAIN doc |-> IF f \in DOMAIN body THEN body[f] ELSE doc[f]]

\* schema validation run by car.save() on the modelled paths
Valid(doc) == doc.status \in Statuses

\* the response of a handler whose try block threw
ServerError == [status |-> 500]

-----------------------------------------------------------------------------
(* NotificationService / VendorNotificationService *)

IsPriceDrop_AnyDrop(oldPrice, newPrice) == newPrice < oldPrice

\* ((newPrice - oldPrice) / oldPrice) * 100 < -5, for oldPrice > 0
\* (the quotient is exact or correctly rounded for the prices in use)
IsPriceDrop(oldPrice, newPrice) == (newPrice - oldPrice) * 100 < (0 - 5) * oldPrice

\* NotificationService.notifyNewListing(car)
notifyNewListing(id, doc) ==
    << emitToLocation(doc.city, doc.state, "newLocalListing",
                      [car |-> id, message |-> "new"]),
       emitToMakeInterests(doc.make, "newMakeListing",
                      [car |-> id, message |-> "new"]),
       Emit(Everyone, "newCarListing", [car |-> id, message |-> "new"]) >>

\* NotificationService.notifyPriceChange(carId, oldPrice, newPrice);
\* doc is what Car.findById(carId) returns at the time of the call
notifyPriceChange(id, doc, oldPrice, newPrice) ==
    IF ~doc.exists THEN <<>>
    ELSE IF IsPriceDrop(oldPrice, newPrice)
    THEN << emitToLocation(doc.city, doc.state, "priceAlert",
                [car |-> id, oldPrice |-> oldPrice, newPrice |-> newPrice,
                 message |-> "drop"]),
            emitToMakeInterests(doc.make, "priceAlert",
                [car |-> id, oldPrice |-> oldPrice, newPrice |-> newPrice]) >>
    ELSE <<>>

\* NotificationService.notifyInquiry(carId, inquirerName)
notifyInquiry(id, doc, inquirer) ==
    IF ~doc.exists THEN <<>>
    ELSE << emitToUser(doc.seller, "newInquiry",
                [carId |-> id, car |-> id, inquirer |-> inquirer,
                 message |-> "interested"]) >>

\* VendorNotificationService.notifyNewInquiry(vendorId, carId, inquirerName)
notifyNewInquiry(vendorId, id, doc, inquirer) ==
    IF ~doc.exists THEN <<>>
    ELSE << emitToUser(vendorId, "newInquiry",
                [type |-> "inquiry", carId |-> id, car |-> id,
                 inquirer |-> inquirer, message |-> "inquired",
                 timestamp |-> "now", priority |-> "high"]) >>

\* VendorNotificationService.notifyPerformanceMilestone(vendorId, carId, milestone)
notifyPerformanceMilestone(vendorId, id, doc, milestone) ==
    IF ~doc.exists THEN <<>>
    ELSE << emitToUser(vendorId, "performanceMilestone",
                [type |-> "milestone", carId |-> id, car |-> id,
                 milestone |-> milestone, inquiries |-> doc.inquiries,
                 timestamp |-> "now",
                 priority |-> CASE milestone = "high_views" -> "medium"
                                [] milestone = "multiple_inquiries" -> "high"
                                [] milestone = "trending" -> "medium"
                                [] OTHER -> "low"]) >>

\* the inquiry count at which the inquiry handler reports a milestone
MilestoneInquiries == 5

ReachedMilestone_AtLeast(doc) == doc.inquiries >= MilestoneInquiries

\* updatedCar.inquiries === 5
ReachedMilestone(doc) == doc.inquiries = MilestoneInquiries

-----------------------------------------------------------------------------
(* The cars router (src/routes/upload.ts) and the vendors router's bulk   *)
(* update (src/routes/auth.ts).  Every handler runs behind `authenticate`  *)
(* (except GET /:id), so its user u is a registered user.  failAt is the   *)
(* ordinal of the handler's notification call that throws (the store       *)
(* lookup inside it rejects, or getIO() throws); 0 when none does.         *)

Respond(r, code, events) ==
    /\ req' = r
    /\ res' = [status |-> code]
    /\ emitted' = events
    /\ UNCHANGED sockets

\* GET /api/cars/:id
GetCar(c) ==
    LET r == [op |-> "get", car |-> c, user |-> <<>>] IN
    /\ UNCHANGED <<nextId, messages, calls>>
    /\ IF ~cars[c].exists
       THEN Respond(r, 404, <<>>) /\ UNCHANGED cars
       ELSE /\ cars[c].views < MaxViews
            /\ cars' = [cars EXCEPT ![c].views = @ + 1]
            /\ Respond(r, 200, <<>>)

\* POST /api/cars
CreateCar(u, hasImages, price, failAt) ==
    LET r == [op |-> "create", car |-> nextId, user |-> u] IN
    IF ~hasImages
    THEN /\ Respond(r, 400, <<>>)
         /\ StoreUnchanged
    ELSE /\ nextId \in CarIds
         /\ LET doc == NewCar(nextId, u, price) IN
              /\ cars' = [cars EXCEPT ![nextId] = doc]
              /\ nextId' = nextId + 1
              /\ UNCHANGED <<messages, calls>>
              /\ IF failAt = 1
                 THEN Respond(r, 500, <<>>)
                 ELSE Respond(r, 201, notifyNewListing(nextId, doc))

\* PUT /api/cars/:id
PutCar(u, c, body, failAt) ==
    LET r == [op |-> "put", car |-> c, user |-> u]
        old == cars[c]
        \* updateData.price && updateData.price !== car.price
        tracked == "price" \in DOMAIN body /\ body.price # 0 /\ body.price # old.price
        pushed == IF tracked
                  THEN [old EXCEPT !.priceHistory = Append(@, body.price)]
                  ELSE old
        events == IF tracked
                  THEN notifyPriceChange(c, cars[c], old.price, body.price)
                  ELSE <<>>
        assigned == Assign(pushed, body)
    IN
    /\ UNCHANGED <<nextId, messages, calls>>
    /\ IF ~old.exists
       THEN Respond(r, 404, <<>>) /\ UNCHANGED cars
       ELSE IF old.seller # u
       THEN Respond(r, 403, <<>>) /\ UNCHANGED cars
       ELSE IF tracked /\ failAt = 1
       THEN Respond(r, 500, <<>>) /\ UNCHANGED cars
       ELSE IF ~Valid(assigned)
       THEN Respond(r, 500, events) /\ UNCHANGED cars
       ELSE /\ Len(assigned.priceHistory) <= MaxHistory
            /\ cars' = [cars EXCEPT ![c] = assigned]
            /\ Respond(r, 200, events)

\* DELETE /api/cars/:id
DeleteCar(u, c, failAt) ==
    LET r == [op |-> "delete", car |-> c, user |-> u]
        old == cars[c]
    IN
    /\ UNCHANGED <<nextId, messages, calls>>
    /\ IF ~old.exists
       THEN Respond(r, 404, <<>>) /\ UNCHANGED cars
       ELSE IF old.seller # u
       THEN Respond(r, 403, <<>>) /\ UNCHANGED cars
       ELSE /\ cars' = [cars EXCEPT ![c] = NoCar]
            /\ IF failAt = 1
               THEN Respond(r, 500, <<>>)
               ELSE Respond(r, 200,
                       << Emit(Everyone, "carDeleted",
                               [carId |-> c, message |-> "removed"]) >>)

\* POST /api/cars/:id/favorite
Favorite(u, c) ==
    LET r == [op |-> "favorite", car |-> c, user |-> u] IN
    /\ UNCHANGED <<nextId, messages, calls>>
    /\ IF ~cars[c].exists
       THEN Respond(r, 404, <<>>) /\ UNCHANGED cars
       ELSE /\ cars[c].favorites < MaxFavorites
            /\ cars' = [cars EXCEPT ![c].favorites = @ + 1]
            /\ Respond(r, 200, <<>>)

Inquiry_MilestoneFirst(u, c, failAt) ==
    LET r == [op |-> "inquiry", car |-> c, user |-> u]
        old == cars[c]
        updated == [old EXCEPT !.inquiries = @ + 1]
        e1 == notifyInquiry(c, updated, u)
        e2 == notifyNewInquiry(old.seller, c, updated, u)
        milestone == ReachedMilestone(updated)
        e3 == IF milestone
              THEN notifyPerformanceMilestone(old.seller, c, updated, "multiple_inquiries")
              ELSE <<>>
    IN
    /\ UNCHANGED <<nextId, messages, calls>>
    /\ IF ~old.exists
       THEN Respond(r, 404, <<>>) /\ UNCHANGED cars
       ELSE /\ old.inquiries < MaxInquiries
            /\ cars' = [cars EXCEPT ![c] = updated]
            /\ CASE failAt = 1 -> Respond(r, 500, <<>>)
                 [] failAt = 2 -> Respond(r, 500, e3 \o e1)
                 [] failAt = 3 /\ milestone -> Respond(r, 500, e3 \o e1 \o e2)
                 [] OTHER -> Respond(r, 200, e3 \o e1 \o e2)

\* POST /api/cars/:id/inquiry
Inquiry(u, c, failAt) ==
    LET r == [op |-> "inquiry", car |-> c, user |-> u]
        old == cars[c]
        updated == [old EXCEPT !.inquiries = @ + 1]
        e1 == notifyInquiry(c, updated, u)
        e2 == notifyNewInquiry(old.seller, c, updated, u)
        milestone == ReachedMilestone(updated)
        e3 == IF milestone
              THEN notifyPerformanceMilestone(old.seller, c, updated, "multiple_inquiries")
              ELSE <<>>
    IN
    /\ UNCHANGED <<nextId, messages, calls>>
    /\ IF ~old.exists
       THEN Respond(r, 404, <<>>) /\ UNCHANGED cars
       ELSE /\ old.inquiries < MaxInquiries
            /\ cars' = [cars EXCEPT ![c] = updated]
            /\ CASE failAt = 1 -> Respond(r, 500, <<>>)
                 [] failAt = 2 -> Respond(r, 500, e1)
                 [] failAt = 3 /\ milestone -> Respond(r, 500, e1 \o e2)
                 [] OTHER -> Respond(r, 200, e1 \o e2 \o e3)

PatchStatus_AnyUser(u, c, status) ==
    LET r == [op |-> "patchStatus", car |-> c, user |-> u]
        old == cars[c]
    IN
    /\ UNCHANGED <<nextId, messages, calls>>
    /\ IF ~old.exists
       THEN Respond(r, 404, <<>>) /\ UNCHANGED cars
       ELSE IF status \notin {"active", "inactive", "sold", "pending"}
       THEN Respond(r, 400, <<>>) /\ UNCHANGED cars
       ELSE /\ cars' = [cars EXCEPT ![c].status = status]
            /\ Respond(r, 200, <<>>)

\* PATCH /api/cars/:id/status
PatchStatus(u, c, status) ==
    LET r == [op |-> "patchStatus", car |-> c, user |-> u]
        old == cars[c]
    IN
    /\ UNCHANGED <<nextId, messages, calls>>
    /\ IF ~old.exists
       THEN Respond(r, 404, <<>>) /\ UNCHANGED cars
       ELSE IF old.seller # u
       THEN Respond(r, 403, <<>>) /\ UNCHANGED cars
       ELSE IF status \notin {"active", "inactive", "sold", "pending"}
       THEN Respond(r, 400, <<>>) /\ UNCHANGED cars
       ELSE /\ cars' = [cars EXCEPT ![c].status = status]
            /\ Respond(r, 200, <<>>)

\* the keys bulk-update copies from `updates` into the $set
validUpdates == {"status", "featured", "urgent", "price"}

Matched_AnySeller(vendorId, carIds) == {c \in carIds : cars[c].exists}

\* the documents updateMany's filter { _id: { $in: carIds }, seller } selects
Matched(vendorId, carIds) ==
    {c \in carIds : cars[c].exists /\ cars[c].seller = vendorId}

\* POST /api/vendors/bulk-update (behind requireVendor).  The schema's
\* timestamps option stamps updatedAt on every document updateMany matches,
\* so modifiedCount is the number of matched documents.
BulkUpdate(u, carIds, updates, failAt) ==
    LET r == [op |-> "bulkUpdate", carIds |-> carIds, user |-> u]
        updateData == [k \in DOMAIN updates \cap validUpdates |-> updates[k]]
        matched == Matched(u, carIds)
        modifiedCount == Cardinality(matched)
    IN
    /\ UNCHANGED <<nextId, messages, calls>>
    /\ IF RoleOf(u) # "vendor"
       THEN Respond(r, 403, <<>>) /\ UNCHANGED cars
       ELSE IF carIds = {} \/ DOMAIN updateData = {}
       THEN Respond(r, 400, <<>>) /\ UNCHANGED cars
       ELSE /\ cars' = [c \in CarIds |->
                          IF c \in matched THEN Assign(cars[c], updateData) ELSE cars[c]]
            /\ req' = r
            /\ UNCHANGED sockets
            /\ IF failAt = 1
               THEN /\ res' = ServerError
                    /\ emitted' = <<>>
               ELSE /\ res' = [status |-> 200, modifiedCount |-> modifiedCount]
                    /\ emitted' = << Emit(UserRoom(u), "inventoryUpdate",
                                          [updatedCount |-> modifiedCount,
                                           updates |-> updateData]) >>

-----------------------------------------------------------------------------
(* Vendor analytics: the read-only handlers of the vendors router          *)
(* (src/routes/auth.ts) and VendorAnalyticsService.  Time is counted in    *)
(* ticks of half a day, so that the floor in daysListed has work to do.    *)

TicksPerDay == 2

\* Date.now() at the time of the request
Now == 100 * TicksPerDay

\* a stored listing as the analytics read it: the schema paths of NewCar
\* plus model and year, listed `age` ticks before Now
AnalyticsCar(seller, status, price, model, year, views, inquiries, age) ==
    [model |-> model, year |-> year]
       @@ [NewCar(1, seller, price) EXCEPT !.status = status, !.views = views,
                                           !.inquiries = inquiries,
                                           !.listedAt = Now - age]

\* Math.floor((Date.now() - listedAt) / (1000 * 60 * 60 * 24))
DaysListed(now, listedAt) == (now - listedAt) \div TicksPerDay

\* Math.round(n / d), d > 0: the nearest integer, a tie going up
Round(n, d) == (2 * n + d) \div (2 * d)

leadScore_Truncated(car) ==
    IF car.views > 0 THEN (car.inquiries * 1000) \div car.views ELSE 0

\* Math.round(inquiryRate * 10) / 10 with inquiryRate =
\* car.views > 0 ? (car.inquiries / car.views) * 100 : 0.  The value is kept
\* in tenths: 333 stands for 33.3.
leadScore(car) ==
    IF car.views > 0 THEN Round(car.inquiries * 1000, car.views) ELSE 0

\* daysListed > 30 ? 'high' : daysListed > 14 ? 'medium' : 'low'
urgencyScore(daysListed) ==
    IF daysListed > 30 THEN "high"
    ELSE IF daysListed > 14 THEN "medium"
    ELSE "low"

\* GET /api/vendors/leads (page 1, default limit): the vendor's listings with
\* at least one inquiry, each with leadScore, urgency and daysListed
Leads(u, now) ==
    LET r == [op |-> "leads", user |-> u]
        carsWithInquiries ==
            {c \in CarIds : cars[c].exists /\ cars[c].seller = u
                            /\ cars[c].inquiries > 0}
    IN
    /\ StoreUnchanged
    /\ req' = r
    /\ emitted' = <<>>
    /\ UNCHANGED sockets
    /\ IF RoleOf(u) # "vendor"
       THEN res' = [status |-> 403]
       ELSE res' = [status |-> 200,
                    leads |-> {[car |-> c,
                                leadScore |-> leadScore(cars[c]),
                                urgency |-> urgencyScore(DaysListed(now, cars[c].listedAt)),
                                daysListed |-> DaysListed(now, cars[c].listedAt)]
                               : c \in carsWithInquiries},
                    total |-> Cardinality(carsWithInquiries)]

PipelineSellerIs_Cast(car, vendorId) == car.seller = vendorId

\* The seller test of an aggregation stage.  Model.aggregate sends its
\* pipeline to the server as written: Mongoose casts the filter of a query
\* (find, countDocuments, updateMany) to the schema's types, but not the
\* stages of a pipeline.  vendorId is req.user.id, the hex string of the
\* user's _id, and seller is stored as an ObjectId, which equals no string.
PipelineSellerIs(car, vendorId) == FALSE

\* $sum of one path over a set of listings
RECURSIVE SumOf(_, _)
SumOf(path, S) ==
    IF S = {} THEN 0
    ELSE LET c == CHOOSE c \in S : TRUE IN cars[c][path] + SumOf(path, S \ {c})

\* Number.prototype.toString for a natural number, as a tuple of characters
DigitChars == <<"0", "1", "2", "3", "4", "5", "6", "7", "8", "9">>

RECURSIVE Digits(_)
Digits(n) ==
    IF n < 10 THEN <<DigitChars[n + 1]>>
    ELSE Digits(n \div 10) \o <<DigitChars[(n % 10) + 1]>>

\* (n / d * 100 ... ).toFixed(1) of the quotient n / d, for n >= 0, d > 0
ToFixed1(n, d) ==
    LET tenths == Round(n * 10, d) IN
    Digits(tenths \div 10) \o <<".">> \o <<DigitChars[(tenths % 10) + 1]>>

\* the overview aggregation: the vendor's listings grouped by status
Overview(vendorId) ==
    LET matched == {c \in CarIds : cars[c].exists
                                   /\ PipelineSellerIs(cars[c], vendorId)}
        group(st) == {c \in matched : cars[c].status = st}
    IN
    {[_id |-> st,
      count |-> Cardinality(group(st)),
      totalValue |-> SumOf("price", group(st)),
      totalViews |-> SumOf("views", group(st)),
      totalInquiries |-> SumOf("inquiries", group(st))]
     : st \in {cars[c].status : c \in matched}}

EmptyStats ==
    [active |-> 0, sold |-> 0, pending |-> 0, inactive |-> 0, totalValue |-> 0,
     avgPrice |-> 0, totalViews |-> 0, totalInquiries |-> 0]

\* overview.forEach(item => { stats[item._id] = item.count; ... += ... }),
\* the groups taken in the order the aggregation returned them
RECURSIVE ProcessOverview(_, _)
ProcessOverview(stats, items) ==
    IF items = {} THEN stats
    ELSE LET item == CHOOSE item \in items : TRUE
             counted == (item._id :> item.count) @@ stats
         IN
         ProcessOverview(
            [counted EXCEPT !.totalValue = @ + item.totalValue,
                            !.totalViews = @ + item.totalViews,
                            !.totalInquiries = @ + item.totalInquiries],
            items \ {item})

\* GET /api/vendors/dashboard.  recentActivity leaves out lastUpdated, which
\* the model does not keep; a quotient is exact for the prices in use.
Dashboard(u, now) ==
    LET r == [op |-> "dashboard", user |-> u]
        thirtyDaysAgo == now - 30 * TicksPerDay
        sevenDaysAgo == now - 7 * TicksPerDay
        own == {c \in CarIds : cars[c].exists /\ cars[c].seller = u}
        summed == ProcessOverview(EmptyStats, Overview(u))
        totalCars == summed.active + summed.sold + summed.pending + summed.inactive
        stats == [summed EXCEPT !.avgPrice =
                     IF totalCars > 0 THEN summed.totalValue \div totalCars ELSE 0]
    IN
    /\ StoreUnchanged
    /\ req' = r
    /\ emitted' = <<>>
    /\ UNCHANGED sockets
    /\ IF RoleOf(u) # "vendor"
       THEN res' = [status |-> 403]
       ELSE res' =
              [status |-> 200,
               stats |-> stats,
               recentActivity |->
                  {c \in CarIds : /\ cars[c].exists
                                  /\ PipelineSellerIs(cars[c], u)
                                  /\ \/ cars[c].listedAt >= sevenDaysAgo
                                     \/ cars[c].soldAt >= sevenDaysAgo},
               topPerforming |-> {c \in own : cars[c].status = "active"},
               lowPerforming |->
                  {c \in own : /\ cars[c].status = "active"
                               /\ cars[c].listedAt <= thirtyDaysAgo
                               /\ cars[c].views <= 10},
               insights |->
                  [conversionRate |->
                      IF stats.totalInquiries > 0
                      THEN ToFixed1(stats.sold * 100, stats.totalInquiries)
                      ELSE <<"0">>,
                   avgViewsPerCar |->
                      IF totalCars > 0 THEN Round(stats.totalViews, totalCars) ELSE 0,
                   avgInquiriesPerCar |->
                      IF totalCars > 0 THEN Round(stats.totalInquiries, totalCars) ELSE 0]]

\* $avg of the price over a non-empty set of listings (exact for the
\* prices in use)
AvgPrice(S) == SumOf("price", S) \div Cardinality(S)

\* the $lookup of the pricing insights: active listings of the same make and
\* model whose year is within 2 of the listing's; no test of the seller
MarketData(c) ==
    {d \in CarIds : /\ cars[d].exists
                    /\ cars[d].make = cars[c].make
                    /\ cars[d].model = cars[c].model
                    /\ cars[d].year >= cars[c].year - 2
                    /\ cars[d].year <= cars[c].year + 2
                    /\ cars[d].status = "active"}

\* GET /api/vendors/recommendations.  Opportunities are grouped by make
\* alone: the model keeps no bodyType.
Recommendations(u, now) ==
    LET r == [op |-> "recommendations", user |-> u]
        underperforming ==
            {c \in CarIds : /\ cars[c].exists
                            /\ cars[c].seller = u
                            /\ cars[c].status = "active"
                            /\ cars[c].listedAt <= now - 14 * TicksPerDay
                            /\ cars[c].views <= 20}
        priced ==
            {c \in CarIds : /\ cars[c].exists
                            /\ PipelineSellerIs(cars[c], u)
                            /\ cars[c].status = "active"}
        priceDiff(c) == cars[c].price - AvgPrice(MarketData(c))
        pricingInsights ==
            {c \in priced : /\ MarketData(c) # {}
                            /\ priceDiff(c) > 5000 \/ priceDiff(c) < 0 - 3000}
        recent ==
            {c \in CarIds : /\ cars[c].exists
                            /\ cars[c].status = "active"
                            /\ cars[c].listedAt >= now - 30 * TicksPerDay}
        ofMake(mk) == {c \in recent : cars[c].make = mk}
        marketOpportunities ==
            {mk \in {cars[c].make : c \in recent} :
                /\ Cardinality(ofMake(mk)) >= 5
                /\ SumOf("views", ofMake(mk)) >= 50 * Cardinality(ofMake(mk))}
    IN
    /\ StoreUnchanged
    /\ req' = r
    /\ emitted' = <<>>
    /\ UNCHANGED sockets
    /\ IF RoleOf(u) # "vendor"
       THEN res' = [status |-> 403]
       ELSE res' =
              [status |-> 200,
               underperforming |-> {[car |-> c, priority |-> "high"] : c \in underperforming},
               pricing |->
                  {[car |-> c,
                    marketPrice |-> AvgPrice(MarketData(c)),
                    priceDiff |-> priceDiff(c),
                    priority |-> IF priceDiff(c) > 10000 \/ priceDiff(c) < 0 - 10000
                                 THEN "high" ELSE "medium"]
                   : c \in pricingInsights},
               opportunities |-> {[make |-> mk, priority |-> "medium"]
                                  : mk \in marketOpportunities}]

\* marketData[0] || null when the aggregation returned no group
NoMarket == [count |-> 0]

\* VendorAnalyticsService.getMarketPosition: the market aggregation of one
\* of the vendor's active listings
MarketOf(c, vendorId) ==
    LET market ==
          {d \in CarIds : /\ cars[d].exists
                          /\ cars[d].make = cars[c].make
                          /\ cars[d].model = cars[c].model
                          /\ cars[d].year >= cars[c].year - 2
                          /\ cars[d].year <= cars[c].year + 2
                          /\ cars[d].status = "active"
                          /\ ~PipelineSellerIs(cars[d], vendorId)}
    IN
    IF market = {} THEN NoMarket
    ELSE [avgPrice |-> AvgPrice(market), count |-> Cardinality(market)]

IsStale_Claimed(car, now) ==
    /\ car.status = "active"
    /\ car.listedAt < now - 45 * TicksPerDay
    /\ car.views < 30

\* the filter of the staleInventory count: status 'active',
\* listedAt <= Date.now() - 45 days, views <= 30
IsStale(car, now) ==
    /\ car.status = "active"
    /\ car.listedAt <= now - 45 * TicksPerDay
    /\ car.views <= 30

\* VendorAnalyticsService.generateRecommendations: the advisories in the
\* order they are pushed
generateRecommendations(vendorId, now) ==
    LET own == {c \in CarIds : cars[c].exists /\ cars[c].seller = vendorId}
        piped == {c \in CarIds : cars[c].exists
                                 /\ PipelineSellerIs(cars[c], vendorId)}
        staleInventory == Cardinality({c \in own : IsStale(cars[c], now)})
        sameYear(c) ==
            {d \in CarIds : /\ cars[d].exists
                            /\ cars[d].make = cars[c].make
                            /\ cars[d].model = cars[c].model
                            /\ cars[d].year = cars[c].year
                            /\ cars[d].status = "active"
                            /\ ~PipelineSellerIs(cars[d], vendorId)}
        \* $gt: ['$price', avgPrice * 1.15].  With no market row $arrayElemAt
        \* yields no value, $multiply yields null, and in the comparison
        \* order of the store every number is greater than null.
        overpriced ==
            {c \in piped :
                /\ cars[c].status = "active"
                /\ IF sameYear(c) = {} THEN TRUE
                   ELSE cars[c].price * 100 * Cardinality(sameYear(c))
                           > SumOf("price", sameYear(c)) * 115}
        soldLately ==
            {c \in piped : /\ cars[c].status = "sold"
                           /\ cars[c].soldAt >= now - 90 * TicksPerDay}
        soldOfMake(mk) == {c \in soldLately : cars[c].make = mk}
        topCategories ==
            {mk \in {cars[c].make : c \in soldLately} :
                /\ Cardinality(soldOfMake(mk)) >= 2
                /\ SumOf("soldAt", soldOfMake(mk)) - SumOf("listedAt", soldOfMake(mk))
                      <= 30 * TicksPerDay * Cardinality(soldOfMake(mk))}
    IN
    (IF staleInventory > 0
     THEN << [type |-> "inventory", priority |-> "high", count |-> staleInventory] >>
     ELSE <<>>)
    \o (IF overpriced # {}
        THEN << [type |-> "pricing", priority |-> "medium",
                 count |-> Cardinality(overpriced)] >>
        ELSE <<>>)
    \o (IF topCategories # {}
        THEN << [type |-> "opportunity", priority |-> "medium",
                 count |-> Cardinality(topCategories)] >>
        ELSE <<>>)

\* GET /api/vendors/report (VendorAnalyticsService.generateVendorReport):
\* the market position and the recommendations of the report; its other
\* sections are aggregations over the same store that the model leaves out
Report(u, now) ==
    LET r == [op |-> "report", user |-> u]
        vendorCars == {c \in CarIds : /\ cars[c].exists
                                      /\ cars[c].seller = u
                                      /\ cars[c].status = "active"}
    IN
    /\ StoreUnchanged
    /\ req' = r
    /\ emitted' = <<>>
    /\ UNCHANGED sockets
    /\ IF RoleOf(u) # "vendor"
       THEN res' = [status |-> 403]
       ELSE res' =
              [status |-> 200,
               marketComparisons |->
                  {[car |-> c,
                    market |-> MarketOf(c, u),
                    competitive |->
                       IF MarketOf(c, u) # NoMarket
                       THEN cars[c].price <= MarketOf(c, u).avgPrice
                       ELSE TRUE]
                   : c \in vendorCars},
               recommendations |-> generateRecommendations(u, now)]

\* VendorAnalyticsService.getVendorAlerts: the alerts in the order they are
\* pushed.  The three counts are queries, whose seller filter is cast.
getVendorAlerts(vendorId, now) ==
    LET own == {c \in DOMAIN cars : cars[c].exists /\ cars[c].seller = vendorId}
        activeCount == Cardinality({c \in own : cars[c].status = "active"})
        highInterest ==
            Cardinality({c \in own : /\ cars[c].status = "active"
                                     /\ cars[c].inquiries >= 5
                                     /\ cars[c].views >= 100})
        oldListings ==
            Cardinality({c \in own : /\ cars[c].status = "active"
                                     /\ cars[c].listedAt <= now - 30 * TicksPerDay
                                     /\ cars[c].views <= 20})
    IN
    (IF activeCount < 5
     THEN << [type |-> "warning", title |-> "Low Inventory",
              count |-> activeCount, priority |-> "medium"] >>
     ELSE <<>>)
    \o (IF highInterest > 0
        THEN << [type |-> "success", title |-> "High Interest Cars",
                 count |-> highInterest, priority |-> "low"] >>
        ELSE <<>>)
    \o (IF oldListings > 0
        THEN << [type |-> "info", title |-> "Price Review Needed",
                 count |-> oldListings, priority |-> "medium"] >>
        ELSE <<>>)

\* GET /api/vendors/realtime (VendorAnalyticsService.getRealTimeDashboard):
\* today's and the week's figures are aggregations that start with
\* $match { seller: vendorId }
RealTime(u, now) ==
    LET r == [op |-> "realtime", user |-> u]
        piped == {c \in DOMAIN cars : cars[c].exists /\ PipelineSellerIs(cars[c], u)}
        todayStats == {c \in piped : \/ cars[c].listedAt >= now - (now % TicksPerDay)
                                     \/ cars[c].soldAt >= now - (now % TicksPerDay)}
        weekStats == {c \in piped : cars[c].listedAt >= now - 7 * TicksPerDay}
    IN
    /\ StoreUnchanged
    /\ req' = r
    /\ emitted' = <<>>
    /\ UNCHANGED sockets
    /\ IF RoleOf(u) # "vendor"
       THEN res' = [status |-> 403]
       ELSE res' = [status |-> 200,
                    today |-> [newListings |-> Cardinality(todayStats)],
                    week |-> [weekListings |-> Cardinality(weekStats)],
                    alerts |-> getVendorAlerts(u, now)]

\* the alert types notifyInventoryAlert distinguishes
AlertTypes == {"low_inventory", "stale_listings", "price_review", "market_opportunity"}

\* VendorNotificationService.notifyInventoryAlert(vendorId, alertType, data)
notifyInventoryAlert(vendorId, alertType, data) ==
    << emitToUser(vendorId, "inventoryAlert",
          [type |-> "alert", alertType |-> alertType, data |-> data,
           timestamp |-> "now",
           priority |-> CASE alertType = "low_inventory" -> "high"
                          [] alertType = "stale_listings" -> "medium"
                          [] alertType = "price_review" -> "medium"
                          [] alertType = "market_opportunity" -> "low"
                          [] OTHER -> "medium"]) >>

\* a caller of the exported notifyInventoryAlert
NotifyInventoryAlert(vendorId, alertType, data) ==
    /\ emitted' = notifyInventoryAlert(vendorId, alertType, data)
    /\ req' = [op |-> "notifyInventoryAlert", user |-> vendorId]
    /\ res' = NoRes
    /\ UNCHANGED sockets
    /\ StoreUnchanged

-----------------------------------------------------------------------------
(* Periodic tasks: the setInterval callbacks of notificationService.ts and *)
(* vendorNotificationService.ts.  `fails` says that the store query of the *)
(* tick rejects or that getIO() throws.  No callback has a try/catch or a  *)
(* .catch: a failure is an unhandled promise rejection, on which the       *)
(* process goes on or exits, depending on the runtime's                    *)
(* unhandled-rejections mode.  res keeps the outcome of the last callback  *)
(* and whether the process is still alive.                                 *)

Alive == IF "alive" \in DOMAIN res THEN res.alive ELSE TRUE

TaskDone(r, events) ==
    /\ req' = r
    /\ emitted' = events
    /\ res' = [status |-> 0, outcome |-> "done", alive |-> TRUE]

\* the promise of the callback rejects and nothing handles it
TaskRejected(r) ==
    /\ req' = r
    /\ emitted' = <<>>
    /\ \E alive \in BOOLEAN :
          res' = [status |-> 0, outcome |-> "unhandledRejection", alive |-> alive]

\* setInterval(() => { NotificationService.sendDailyDigest(); }, 24 h).
\* priceDrops counts the active listings with a second price entry (the
\* model keeps no lastUpdated).
DailyDigestTick(fails, now) ==
    LET r == [op |-> "dailyDigest"]
        active == {c \in DOMAIN cars : cars[c].exists /\ cars[c].status = "active"}
    IN
    /\ Alive
    /\ StoreUnchanged
    /\ UNCHANGED sockets
    /\ IF fails
       THEN TaskRejected(r)
       ELSE TaskDone(r,
               << Emit(Everyone, "dailyDigest",
                     [newListings |->
                         Cardinality({c \in active : cars[c].listedAt >= now - TicksPerDay}),
                      priceDrops |->
                         Cardinality({c \in active : Len(cars[c].priceHistory) >= 2}),
                      popularMakes |-> {cars[c].make : c \in active},
                      message |-> "digest"]) >>)

\* setInterval(() => { NotificationService.notifyMarketTrends(); }, 1 h)
MarketTrendsTick(fails, now) ==
    LET r == [op |-> "marketTrends"]
        trending == {cars[c].make :
                        c \in {c \in DOMAIN cars : /\ cars[c].exists
                                                   /\ cars[c].status = "active"
                                                   /\ cars[c].listedAt >= now - TicksPerDay}}
    IN
    /\ Alive
    /\ StoreUnchanged
    /\ UNCHANGED sockets
    /\ IF fails
       THEN TaskRejected(r)
       ELSE TaskDone(r,
               IF trending # {}
               THEN << Emit(Everyone, "marketTrends",
                          [trending |-> trending, message |-> "hot",
                           timestamp |-> "now"]) >>
               ELSE <<>>)

\* the dailySummary events of sendDailyVendorSummary for a set of vendors
RECURSIVE DailySummaries(_)
DailySummaries(vendors) ==
    IF vendors = {} THEN <<>>
    ELSE LET v == CHOOSE v \in vendors : TRUE IN
         << emitToUser(v, "dailySummary",
               [type |-> "summary",
                topPerformers |-> {c \in DOMAIN cars : /\ cars[c].exists
                                                       /\ cars[c].seller = v
                                                       /\ cars[c].status = "active"},
                timestamp |-> "now", priority |-> "low"]) >>
         \o DailySummaries(vendors \ {v})

\* the every-minute callback of schedulePeriodicNotifications: at 9:00 a
\* daily summary for every seller of an active listing
DailySummaryTick(fails, nineAM) ==
    LET r == [op |-> "dailySummaryCheck"]
        vendors == {cars[c].seller :
                       c \in {c \in DOMAIN cars : cars[c].exists /\ cars[c].status = "active"}}
    IN
    /\ Alive
    /\ StoreUnchanged
    /\ UNCHANGED sockets
    /\ IF ~nineAM
       THEN TaskDone(r, <<>>)
       ELSE IF fails
       THEN TaskRejected(r)
       ELSE TaskDone(r, DailySummaries(vendors))

\* the stale_listings alerts of the weekly scan, one per seller
RECURSIVE StaleAlerts(_, _)
StaleAlerts(sellers, stale) ==
    IF sellers = {} THEN <<>>
    ELSE LET v == CHOOSE v \in sellers : TRUE IN
         notifyInventoryAlert(v, "stale_listings",
            [count |-> Cardinality({c \in stale : cars[c].seller = v}), days |-> 30])
         \o StaleAlerts(sellers \ {v}, stale)

\* the weekly callback of schedulePeriodicNotifications
WeeklyStaleTick(fails, now) ==
    LET r == [op |-> "weeklyStaleScan"]
        stale == {c \in DOMAIN cars : /\ cars[c].exists
                                      /\ cars[c].status = "active"
                                      /\ cars[c].listedAt <= now - 30 * TicksPerDay
                                      /\ cars[c].views <= 20}
    IN
    /\ Alive
    /\ StoreUnchanged
    /\ UNCHANGED sockets
    /\ IF fails
       THEN TaskRejected(r)
       ELSE TaskDone(r, StaleAlerts({cars[c].seller : c \in stale}, stale))

-----------------------------------------------------------------------------
(* The messages router (src/unnamed/part_000), behind `authenticate`.      *)
(* A Message document is [id, userId, status, conversation], conversation  *)
(* being the number of entries of its conversation array.                  *)

MaxMessages == 2
MaxConversation == 2

\* the payload both handlers hand to io.emit: the customer's name and e-mail
MessagePayload(id, userId) ==
    [_id |-> id, customerName |-> userId, customerEmail |-> userId]

\* POST /api/messages; failed: message.save() or populate() rejects
PostMessage(u, failed) ==
    LET r == [op |-> "postMessage", user |-> u]
        id == Cardinality(messages) + 1
    IN
    /\ req' = r
    /\ UNCHANGED <<sockets, cars, nextId, calls>>
    /\ IF failed
       THEN /\ res' = [status |-> 500]
            /\ emitted' = <<>>
            /\ UNCHANGED messages
       ELSE /\ id <= MaxMessages
            /\ messages' = messages \cup
                   {[id |-> id, userId |-> u, status |-> "default", conversation |-> 1]}
            /\ emitted' = << Emit(Everyone, "newMessage", MessagePayload(id, u)) >>
            /\ res' = [status |-> 201]

\* POST /api/messages/:id/user-reply
UserReply(u, id, failed) ==
    LET r == [op |-> "userReply", user |-> u, message |-> id]
        found == {m \in messages : m.id = id /\ m.userId = u}
    IN
    /\ req' = r
    /\ UNCHANGED <<sockets, cars, nextId, calls>>
    /\ IF failed
       THEN /\ res' = [status |-> 500]
            /\ emitted' = <<>>
            /\ UNCHANGED messages
       ELSE IF found = {}
       THEN /\ res' = [status |-> 404]
            /\ emitted' = <<>>
            /\ UNCHANGED messages
       ELSE LET m == CHOOSE m \in found : TRUE IN
            /\ m.conversation < MaxConversation
            /\ messages' = (messages \ {m}) \cup
                   {[m EXCEPT !.status = "read", !.conversation = @ + 1]}
            /\ emitted' = << Emit(Everyone, "newMessage", MessagePayload(id, u)) >>
            /\ res' = [status |-> 200]

-----------------------------------------------------------------------------
(* POST /api/cars/:id/inquiry, one await at a time (src/routes/upload.ts   *)
(* 513-542).  Node runs a handler up to its next await and then may run    *)
(* another request's handler, so several inquiry requests interleave at    *)
(* their awaits.  calls[k] is request k: its position pc, its caller, its  *)
(* listing, the seller read by the first findById and its response.  Here  *)
(* emitted is the log of every event published so far.                     *)

CallIds == {1, 2}

Started(k) == k \in DOMAIN calls
At(k, pc) == Started(k) /\ calls[k].pc = pc

CallStep(k, name) == [op |-> name, call |-> k]

\* res.status(code).json(...): the request is over
Finish(k, code) == [calls EXCEPT ![k].pc = "done", ![k].status = code]

\* const car = await Car.findById(req.params.id); if (!car) return 404
InquiryFind(k, u, c) ==
    /\ ~Started(k)
    /\ req' = CallStep(k, "inquiryFind")
    /\ LET call == [pc |-> "inc", user |-> u, car |-> c,
                    seller |-> IF cars[c].exists THEN cars[c].seller ELSE <<>>,
                    status |-> 0]
       IN IF cars[c].exists
          THEN /\ calls' = calls @@ (k :> call)
               /\ res' = NoRes
          ELSE /\ calls' = calls @@ (k :> [call EXCEPT !.pc = "done", !.status = 404])
               /\ res' = [status |-> 404]
    /\ UNCHANGED <<sockets, cars, nextId, messages, emitted>>

\* await Car.findByIdAndUpdate(id, { $inc: { inquiries: 1 } }): atomic
InquiryIncrement(k) ==
    /\ At(k, "inc")
    /\ cars[calls[k].car].inquiries < MaxInquiries
    /\ cars' = [cars EXCEPT ![calls[k].car].inquiries = @ + 1]
    /\ calls' = [calls EXCEPT ![k].pc = "notifyInquiry"]
    /\ req' = CallStep(k, "inquiryIncrement")
    /\ res' = NoRes
    /\ UNCHANGED <<sockets, nextId, messages, emitted>>

\* await NotificationService.notifyInquiry(car._id, user.name)
InquiryNotifySeller(k, fails) ==
    /\ At(k, "notifyInquiry")
    /\ req' = CallStep(k, "inquiryNotifySeller")
    /\ IF fails
       THEN /\ calls' = Finish(k, 500)
            /\ res' = [status |-> 500]
            /\ UNCHANGED emitted
       ELSE /\ calls' = [calls EXCEPT ![k].pc = "notifyNewInquiry"]
            /\ res' = NoRes
            /\ emitted' = emitted \o
                   notifyInquiry(calls[k].car, cars[calls[k].car], calls[k].user)
    /\ UNCHANGED <<sockets, cars, nextId, messages>>

\* await VendorNotificationService.notifyNewInquiry(seller, car._id, user.name)
InquiryNotifyVendor(k, fails) ==
    /\ At(k, "notifyNewInquiry")
    /\ req' = CallStep(k, "inquiryNotifyVendor")
    /\ IF fails
       THEN /\ calls' = Finish(k, 500)
            /\ res' = [status |-> 500]
            /\ UNCHANGED emitted
       ELSE /\ calls' = [calls EXCEPT ![k].pc = "reread"]
            /\ res' = NoRes
            /\ emitted' = emitted \o
                   notifyNewInquiry(calls[k].seller, calls[k].car,
                                    cars[calls[k].car], calls[k].user)
    /\ UNCHANGED <<sockets, cars, nextId, messages>>

\* const updatedCar = await Car.findById(id).lean();
\* if (updatedCar && updatedCar.inquiries === 5) ... else the 200 response
InquiryReread(k) ==
    /\ At(k, "reread")
    /\ req' = CallStep(k, "inquiryReread")
    /\ IF ReachedMilestone(cars[calls[k].car])
       THEN /\ calls' = [calls EXCEPT ![k].pc = "milestone"]
            /\ res' = NoRes
       ELSE /\ calls' = Finish(k, 200)
            /\ res' = [status |-> 200]
    /\ UNCHANGED <<sockets, cars, nextId, messages, emitted>>

\* await VendorNotificationService.notifyPerformanceMilestone(...); then 200
InquiryMilestone(k, fails) ==
    /\ At(k, "milestone")
    /\ req' = CallStep(k, "inquiryMilestone")
    /\ IF fails
       THEN /\ calls' = Finish(k, 500)
            /\ res' = [status |-> 500]
            /\ UNCHANGED emitted
       ELSE /\ calls' = Finish(k, 200)
            /\ res' = [status |-> 200]
            /\ emitted' = emitted \o
                   notifyPerformanceMilestone(calls[k].seller, calls[k].car,
                                              cars[calls[k].car], "multiple_inquiries")
    /\ UNCHANGED <<sockets, cars, nextId, messages>>

-----------------------------------------------------------------------------
(* Specifications *)

Init ==
    /\ sockets = [s \in SocketIds |-> ClosedSocket]
    /\ cars = [c \in CarIds |-> NoCar]
    /\ nextId = 1
    /\ messages = {}
    /\ calls = NoCalls
    /\ req = NoReq
    /\ emitted = <<>>
    /\ res = NoRes

NextSocket ==
    \/ \E s \in SocketIds, tok \in Tokens : Connect(s, tok)
    \/ \E s \in SocketIds, loc \in ClientLocations : JoinLocation(s, loc)
    \/ \E s \in SocketIds, ms \in SUBSET ClientMakes, bs \in SUBSET ClientBodyTypes :
          JoinInterests(s, ms, bs)
    \/ \E s \in SocketIds : LiveSearch(s)
    \/ \E s \in SocketIds : SendMessage(s)
    \/ \E s \in SocketIds : JoinAdminRoom(s)
    \/ \E s \in SocketIds : JoinUserRoom(s)
    \/ \E s \in SocketIds : SetPriceAlert(s)
    \/ \E s \in SocketIds : Disconnect(s)
    \/ \E u \in UserIds : PublishToUser(u)
    \/ \E loc \in ClientLocations : PublishToLocation(loc)
    \/ \E m \in ClientMakes : PublishToMake(m)

SpecSocket == Init /\ [][NextSocket]_vars

\* the prices requests carry
Prices == {94, 95, 97, 100}
FailPoints == {0, 1}

\* Pricing of one listing: create, owner update of the price (alone, or with
\* a status the schema rejects), vendor bulk update of the price, delete
PriceBodies ==
    {[price |-> p] : p \in Prices} \cup {[price |-> 94, status |-> "bogus"]}

NextPrice ==
    \/ \E u \in UserIds, im \in BOOLEAN, f \in FailPoints :
          nextId = 1 /\ CreateCar(u, im, 100, f)
    \/ \E u \in UserIds, c \in CarIds, b \in PriceBodies, f \in FailPoints :
          PutCar(u, c, b, f)
    \/ \E u \in UserIds, c \in CarIds, f \in FailPoints : DeleteCar(u, c, f)
    \/ \E u \in UserIds, ids \in SUBSET CarIds, p \in {94, 100}, f \in FailPoints :
          BulkUpdate(u, ids, [price |-> p], f)

SpecPrice == Init /\ [][NextPrice]_vars

\* Engagement with one listing: reads, favorites, inquiries, and the owner
\* update and bulk update with bodies that name counters
EngageBodies == {[inquiries |-> 4], [views |-> 1], [price |-> 94]}

NextEngage ==
    \/ \E c \in CarIds : GetCar(c)
    \/ \E u \in UserIds, im \in BOOLEAN : nextId = 1 /\ CreateCar(u, im, 100, 0)
    \/ \E u \in UserIds, c \in CarIds, b \in EngageBodies : PutCar(u, c, b, 0)
    \/ \E u \in UserIds, c \in CarIds : DeleteCar(u, c, 0)
    \/ \E u \in UserIds, c \in CarIds : Favorite(u, c)
    \/ \E u \in UserIds, c \in CarIds, f \in 0..3 : Inquiry(u, c, f)
    \/ \E u \in UserIds, ids \in SUBSET CarIds :
          BulkUpdate(u, ids, [inquiries |-> 0, status |-> "pending"], 0)

SpecEngage == Init /\ [][NextEngage]_vars

\* Lifecycle: status changes by PATCH, owner update and bulk update
StatusBodies == {[status |-> st] : st \in Statuses \cup {"bogus"}}

NextStatus ==
    \/ \E u \in UserIds, im \in BOOLEAN : CreateCar(u, im, 100, 0)
    \/ \E u \in UserIds, c \in CarIds, b \in StatusBodies : PutCar(u, c, b, 0)
    \/ \E u \in UserIds, c \in CarIds : DeleteCar(u, c, 0)
    \/ \E u \in UserIds, c \in CarIds, st \in Statuses \cup {"bogus"} :
          PatchStatus(u, c, st)
    \/ \E u \in UserIds, ids \in SUBSET CarIds, up \in StatusBodies \cup {[seller |-> VendorId]},
          f \in FailPoints :
          BulkUpdate(u, ids, up, f)

SpecStatus == Init /\ [][NextStatus]_vars

\* New-listing fan-out: clients connect, subscribe to a location and to
\* makes in their own spelling, and disconnect, while one listing is created
LowerCaseLocation == [city |-> <<"l", "a">>, state |-> <<"c", "a">>]

NextListing ==
    \/ \E s \in SocketIds, tok \in {NoToken, ValidToken(BuyerId)} : Connect(s, tok)
    \/ \E s \in SocketIds, loc \in ClientLocations \cup {LowerCaseLocation} :
          JoinLocation(s, loc)
    \/ \E s \in SocketIds, ms \in SUBSET ClientMakes : JoinInterests(s, ms, {})
    \/ \E s \in SocketIds : Disconnect(s)
    \/ \E u \in UserIds, im \in BOOLEAN, f \in FailPoints :
          nextId = 1 /\ CreateCar(u, im, 100, f)

SpecListing == Init /\ [][NextListing]_vars

\* Leads: the store holds two listings, one varying in views and inquiries,
\* the other in owner and age
KiaRio == <<"R", "i", "o">>

ScoredCars ==
    {AnalyticsCar(VendorId, "active", 100, KiaRio, 2020, v, i, 5 * TicksPerDay) :
        v \in {0, 3, 16}, i \in {0, 1, 2}}

AgedCars ==
    {AnalyticsCar(u, "active", 100, KiaRio, 2020, 4, 1, age) :
        u \in UserIds, age \in {10, 28, 29, 40, 60, 61, 62}}

InitLeads ==
    /\ sockets = [s \in SocketIds |-> ClosedSocket]
    /\ cars \in {<<a, b>> : a \in ScoredCars, b \in AgedCars}
    /\ nextId = 3
    /\ messages = {}
    /\ calls = NoCalls
    /\ req = NoReq
    /\ emitted = <<>>
    /\ res = NoRes

NextLeads == \E u \in UserIds : Leads(u, Now)

SpecLeads == InitLeads /\ [][NextLeads]_vars

\* Dashboard: the store holds up to two listings, the first the vendor's
\* (any status), the second anybody's
VendorStock ==
    {AnalyticsCar(VendorId, st, p, KiaRio, 2020, 4, i, 40 * TicksPerDay) :
        st \in Statuses, p \in {100, 300}, i \in {0, 1, 2}}

OtherStock ==
    {AnalyticsCar(u, st, 100, KiaRio, 2020, 12, i, 3 * TicksPerDay) :
        u \in UserIds, st \in {"active", "sold"}, i \in {0, 2}}

InitDashboard ==
    /\ sockets = [s \in SocketIds |-> ClosedSocket]
    /\ cars \in {<<a, b>> : a \in VendorStock \cup {NoCar}, b \in OtherStock \cup {NoCar}}
    /\ nextId = 3
    /\ messages = {}
    /\ calls = NoCalls
    /\ req = NoReq
    /\ emitted = <<>>
    /\ res = NoRes

NextDashboard == \E u \in UserIds : Dashboard(u, Now)

SpecDashboard == InitDashboard /\ [][NextDashboard]_vars

\* Report and recommendations: the vendor's listing near the stale
\* thresholds, and a second listing that is or is not comparable to it
KiaSoul == <<"S", "o", "u", "l">>

ThresholdStock ==
    {AnalyticsCar(VendorId, st, 30000, KiaRio, 2020, v, 0, age) :
        st \in {"active", "sold"}, v \in {29, 30, 31}, age \in {89, 90, 92}}

MarketStock ==
    {AnalyticsCar(u, st, p, m, y, 40, 0, 20 * TicksPerDay) :
        u \in UserIds, st \in {"active", "sold"}, p \in {10000, 20000},
        m \in {KiaRio, KiaSoul}, y \in {2018, 2020, 2023}}

InitReport ==
    /\ sockets = [s \in SocketIds |-> ClosedSocket]
    /\ cars \in {<<a, b>> : a \in ThresholdStock, b \in MarketStock \cup {NoCar}}
    /\ nextId = 3
    /\ messages = {}
    /\ calls = NoCalls
    /\ req = NoReq
    /\ emitted = <<>>
    /\ res = NoRes

NextReport ==
    \/ \E u \in UserIds : Recommendations(u, Now)
    \/ \E u \in UserIds : Report(u, Now)

SpecReport == InitReport /\ [][NextReport]_vars

\* Alerts: a store of six listings of the vendor, each active or sold
InitAlerts ==
    /\ sockets = [s \in SocketIds |-> ClosedSocket]
    /\ cars \in [1..6 -> {AnalyticsCar(VendorId, st, 100, KiaRio, 2020, 40, 0,
                                       3 * TicksPerDay) : st \in {"active", "sold"}}]
    /\ nextId = 7
    /\ messages = {}
    /\ calls = NoCalls
    /\ req = NoReq
    /\ emitted = <<>>
    /\ res = NoRes

NextAlerts ==
    \/ \E u \in UserIds : RealTime(u, Now)
    \/ \E t \in AlertTypes, n \in {0, 4} :
          NotifyInventoryAlert(VendorId, t, [count |-> n])

SpecAlerts == InitAlerts /\ [][NextAlerts]_vars

\* Periodic tasks over a store of up to two listings, new or old
TaskStock ==
    {AnalyticsCar(u, st, 100, KiaRio, 2020, v, 0, age) :
        u \in UserIds, st \in {"active", "sold"}, v \in {10, 40}, age \in {1, 80}}

InitTasks ==
    /\ sockets = [s \in SocketIds |-> ClosedSocket]
    /\ cars \in {<<a, b>> : a \in TaskStock \cup {NoCar}, b \in TaskStock \cup {NoCar}}
    /\ nextId = 3
    /\ messages = {}
    /\ calls = NoCalls
    /\ req = NoReq
    /\ emitted = <<>>
    /\ res = NoRes

NextTasks ==
    \/ \E fails \in BOOLEAN : DailyDigestTick(fails, Now)
    \/ \E fails \in BOOLEAN : MarketTrendsTick(fails, Now)
    \/ \E fails \in BOOLEAN, nineAM \in BOOLEAN : DailySummaryTick(fails, nineAM)
    \/ \E fails \in BOOLEAN : WeeklyStaleTick(fails, Now)

SpecTasks == InitTasks /\ [][NextTasks]_vars

\* Price history of one listing: owner updates whose body carries a price,
\* a priceHistory, or both, and a vendor bulk update of the price
HistoryBodies ==
    {[price |-> 94], [price |-> 100], [priceHistory |-> <<50>>],
     [price |-> 95, priceHistory |-> <<>>]}

NextHistory ==
    \/ \E u \in UserIds, im \in BOOLEAN : nextId = 1 /\ CreateCar(u, im, 100, 0)
    \/ \E u \in UserIds, c \in CarIds, b \in HistoryBodies : PutCar(u, c, b, 0)
    \/ \E u \in UserIds, c \in CarIds : DeleteCar(u, c, 0)
    \/ \E u \in UserIds, ids \in SUBSET CarIds, p \in {94, 100} :
          BulkUpdate(u, ids, [price |-> p], 0)
    \/ \E u \in UserIds, c \in CarIds, st \in {"sold", "bogus"} : PatchStatus(u, c, st)

SpecHistory == Init /\ [][NextHistory]_vars

NextMessages ==
    \/ \E s \in SocketIds, tok \in Tokens : Connect(s, tok)
    \/ \E s \in SocketIds : JoinAdminRoom(s)
    \/ \E s \in SocketIds : SendMessage(s)
    \/ \E s \in SocketIds : Disconnect(s)
    \/ \E u \in UserIds, f \in BOOLEAN : PostMessage(u, f)
    \/ \E u \in UserIds, id \in 1..MaxMessages, f \in BOOLEAN : UserReply(u, id, f)

SpecMessages == Init /\ [][NextMessages]_vars

\* Concurrent inquiries: listing 1 of the vendor with some inquiries already
InitConcurrent ==
    /\ sockets = [s \in SocketIds |-> ClosedSocket]
    /\ \E n \in 0..MilestoneInquiries :
          cars = [c \in CarIds |->
                    IF c = 1
                    THEN [NewCar(1, VendorId, 100) EXCEPT !.inquiries = n]
                    ELSE NoCar]
    /\ nextId = 2
    /\ messages = {}
    /\ calls = NoCalls
    /\ req = NoReq
    /\ emitted = <<>>
    /\ res = NoRes

NextConcurrent ==
    \/ \E k \in CallIds, u \in UserIds, c \in CarIds : InquiryFind(k, u, c)
    \/ \E k \in CallIds : InquiryIncrement(k)
    \/ \E k \in CallIds, f \in BOOLEAN : InquiryNotifySeller(k, f)
    \/ \E k \in CallIds, f \in BOOLEAN : InquiryNotifyVendor(k, f)
    \/ \E k \in CallIds : InquiryReread(k)
    \/ \E k \in CallIds, f \in BOOLEAN : InquiryMilestone(k, f)

SpecConcurrent == InitConcurrent /\ [][NextConcurrent]_vars

-----------------------------------------------------------------------------
(* Claims *)

\* C1: a socket is a member of user U's personal room only if it
\* authenticated with a valid token for U, and every event published with
\* emitToUser(U, ...) is delivered only to sockets authenticated as U.
C1_PersonalRoomOnlyForOwner ==
    /\ \A s \in SocketIds, u \in UserIds :
          UserRoom(u) \in sockets[s].rooms => sockets[s].user.id = u
    /\ \A i \in 1..Len(emitted), u \in UserIds :
          emitted[i].room = UserRoom(u)
              => \A s \in emitted[i].to : sockets[s].user.id = u

\* the events named ev among those published
Published(events, ev) == {i \in 1..Len(events) : events[i].event = ev}

\* a priceAlert for listing c was published to the location room and to
\* the make room of doc
AlertedBoth(events, c, doc) ==
    /\ \E i \in Published(events, "priceAlert") :
          /\ events[i].room = LocationRoom(doc.city, doc.state)
          /\ events[i].data.car = c
    /\ \E i \in Published(events, "priceAlert") :
          /\ events[i].room = MakeRoom(doc.make)
          /\ events[i].data.car = c

\* C2: every owner price update that is answered 200 and whose percentDiff
\* (newPrice - oldPrice) / oldPrice * 100 is <= -5, a drop of exactly 5%
\* included, publishes a priceAlert to the listing's location room and to
\* its make room.
C2_AlertFromFivePercent ==
    [][\A u \in UserIds, c \in CarIds, b \in PriceBodies :
          ( /\ PutCar(u, c, b, 0)
            /\ res'.status = 200
            /\ "price" \in DOMAIN b
            /\ (b.price - cars[c].price) * 100 <= (0 - 5) * cars[c].price )
          => AlertedBoth(emitted', c, cars[c])]_vars

\* C3: an owner price update whose percentDiff is greater than -5 publishes
\* no priceAlert at all, whatever else the request does, and no handler but
\* the owner update publishes one; an update from 100 to 94 by the owner
\* publishes one to the location room and one to the make room.
C3_NoAlertAboveMinusFive ==
    [][ /\ Published(emitted', "priceAlert") # {} => req'.op = "put"
        /\ \A u \in UserIds, c \in CarIds, b \in PriceBodies, f \in FailPoints :
              ( /\ req'.op = "put"
                /\ PutCar(u, c, b, f)
                /\ cars[c].exists
                /\ "price" \in DOMAIN b )
              => /\ (b.price - cars[c].price) * 100 > (0 - 5) * cars[c].price
                      => Published(emitted', "priceAlert") = {}
                 /\ (cars[c].seller = u /\ f = 0 /\ cars[c].price = 100 /\ b.price = 94)
                      => AlertedBoth(emitted', c, cars[c])
      ]_vars

\* C3 witness: the owner's update from 100 to 97 was saved and published nothing
C3_Witness ==
    \E c \in CarIds :
        /\ cars[c].exists
        /\ req = [op |-> "put", car |-> c, user |-> cars[c].seller]
        /\ res.status = 200
        /\ cars[c].priceHistory = <<100, 97>>
        /\ cars[c].price = 97
        /\ emitted = <<>>

\* the performanceMilestone events among the published ones that went to
\* the personal room of userId
Milestones(events, userId) ==
    {i \in Published(events, "performanceMilestone") : events[i].room = UserRoom(userId)}

\* C4: an inquiry request that completes (answered 200) and moves the
\* listing's inquiries from 4 to 5 publishes exactly one performanceMilestone,
\* to the seller's personal room; one that moves it from 5 or more publishes
\* none.
C4_MilestoneOnFifthInquiryOnly ==
    [][\A u \in UserIds, c \in CarIds :
          ( /\ req'.op = "inquiry"
            /\ Inquiry(u, c, 0)
            /\ res'.status = 200 )
          => /\ cars[c].inquiries = 4
                  => /\ Cardinality(Published(emitted', "performanceMilestone")) = 1
                     /\ Cardinality(Milestones(emitted', cars[c].seller)) = 1
             /\ cars[c].inquiries >= 5
                  => Published(emitted', "performanceMilestone") = {}]_vars

\* C4 witness: the fifth inquiry was recorded and its milestone published
C4_Witness ==
    \E c \in CarIds :
        /\ cars[c].exists
        /\ req.op = "inquiry"
        /\ req.car = c
        /\ res.status = 200
        /\ cars[c].inquiries = 5
        /\ Cardinality(Milestones(emitted, cars[c].seller)) = 1

\* C5: a priceAlert is published only for a price change the store holds:
\* the listing's stored price is the alert's newPrice.
C5_AlertOnlyForPersistedPrice ==
    \A i \in Published(emitted, "priceAlert") :
        LET c == emitted[i].data.car IN
        /\ cars[c].exists
        /\ cars[c].price = emitted[i].data.newPrice

\* C6: a request whose notification call throws still applies its mutation:
\* the created listing is stored, the owner's new price is saved, the
\* deleted listing is gone, the bulk update is applied to the vendor's
\* listings.
C6_FanoutFailureKeepsMutation ==
    [][ /\ \A u \in UserIds :
              (nextId \in CarIds /\ CreateCar(u, TRUE, 100, 1)) => cars'[nextId].exists
        /\ \A u \in UserIds, c \in CarIds, b \in PriceBodies :
              ( /\ PutCar(u, c, b, 1)
                /\ cars[c].exists
                /\ cars[c].seller = u
                /\ Valid(Assign(cars[c], b)) )
              => cars'[c].price = b.price
        /\ \A u \in UserIds, c \in CarIds :
              (DeleteCar(u, c, 1) /\ cars[c].exists /\ cars[c].seller = u)
              => ~cars'[c].exists
        /\ \A ids \in SUBSET CarIds, p \in {94, 100} :
              BulkUpdate(VendorId, ids, [price |-> p], 1)
              => \A c \in ids :
                    (cars[c].exists /\ cars[c].seller = VendorId) => cars'[c].price = p
      ]_vars

\* C7: every listing whose status is sold has soldAt set, not before listedAt.
C7_SoldHasSoldAt ==
    \A c \in CarIds :
        (cars[c].exists /\ cars[c].status = "sold")
        => (cars[c].soldAt # NoDate /\ cars[c].soldAt >= cars[c].listedAt)

\* C8: every step that changes a listing's price appends exactly one entry,
\* carrying the new price, to its priceHistory.
C8_PriceChangeAppendsHistory ==
    [][\A c \in CarIds :
          (cars[c].exists /\ cars'[c].exists /\ cars'[c].price # cars[c].price)
          => cars'[c].priceHistory = Append(cars[c].priceHistory, cars'[c].price)]_vars

\* C9: views, inquiries and favorites change only by one, and only in the
\* read, inquiry and favorite handlers of that listing.
C9_CountersOnlyByTheirHandlers ==
    [][\A c \in CarIds :
          (cars[c].exists /\ cars'[c].exists)
          => /\ cars'[c].views # cars[c].views
                  => (req'.op = "get" /\ req'.car = c
                      /\ cars'[c].views = cars[c].views + 1)
             /\ cars'[c].inquiries # cars[c].inquiries
                  => (req'.op = "inquiry" /\ req'.car = c
                      /\ cars'[c].inquiries = cars[c].inquiries + 1)
             /\ cars'[c].favorites # cars[c].favorites
                  => (req'.op = "favorite" /\ req'.car = c
                      /\ cars'[c].favorites = cars[c].favorites + 1)]_vars

\* C10: a bulk update by vendor u leaves every listing that is not u's
\* unchanged, and when it is answered 200 both modifiedCount of the response
\* and updatedCount of the inventoryUpdate event (published to u's personal
\* room) are the number of u's own listings among carIds, 0 when there is none.
C10_BulkUpdateOwnListingsOnly ==
    [][req'.op = "bulkUpdate"
       => LET u == req'.user
              own == {c \in req'.carIds : cars[c].exists /\ cars[c].seller = u}
          IN
          /\ \A c \in CarIds :
                ~(cars[c].exists /\ cars[c].seller = u) => cars'[c] = cars[c]
          /\ res'.status = 200
                => /\ res'.modifiedCount = Cardinality(own)
                   /\ Len(emitted') = 1
                   /\ emitted'[1].event = "inventoryUpdate"
                   /\ emitted'[1].room = UserRoom(u)
                   /\ emitted'[1].data.updatedCount = Cardinality(own)
                   /\ \A c \in CarIds :
                         cars'[c] # cars[c] => c \in own]_vars

\* C10 witness: a bulk update to sold reported one modified listing, the
\* vendor's, while the other seller's listing is still active
C10_Witness ==
    /\ req.op = "bulkUpdate"
    /\ res = [status |-> 200, modifiedCount |-> 1]
    /\ \E c, d \in CarIds :
          /\ cars[c].exists /\ cars[c].seller = VendorId /\ cars[c].status = "sold"
          /\ cars[d].exists /\ cars[d].seller = BuyerId /\ cars[d].status = "active"


\* the events the fan-out layer publishes: new-listing, price-alert,
\* new-inquiry, performance-milestone, inventory-update, listing-removed
FanoutEvents ==
    {"newLocalListing", "newMakeListing", "newCarListing", "priceAlert",
     "newInquiry", "performanceMilestone", "inventoryUpdate", "carDeleted"}

\* C11: every event published by the fan-out layer carries a timestamp field
\* and a priority field whose value is one of low, medium, high.
C11_EventsCarryTimestampAndPriority ==
    \A i \in 1..Len(emitted) :
        emitted[i].event \in FanoutEvents
        => /\ {"timestamp", "priority"} \subseteq DOMAIN emitted[i].data
           /\ emitted[i].data.priority \in {"low", "medium", "high"}

\* the open sockets that joined the location room of doc under some spelling
\* of its city and state
LocationSubscribers(doc) ==
    {s \in SocketIds :
        /\ sockets[s].open
        /\ \E loc \in ClientLocations \cup {LowerCaseLocation} :
              /\ ToLower(loc.city) = ToLower(doc.city)
              /\ ToLower(loc.state) = ToLower(doc.state)
              /\ LocationRoom(loc.city, loc.state) \in sockets[s].rooms}

\* the open sockets that joined the make room of doc under some spelling
MakeSubscribers(doc) ==
    {s \in SocketIds :
        /\ sockets[s].open
        /\ \E m \in ClientMakes :
              ToLower(m) = ToLower(doc.make) /\ MakeRoom(m) \in sockets[s].rooms}

\* C12: a creation answered 201 stores the listing and publishes
\* newLocalListing to every socket subscribed to its location,
\* newMakeListing to every socket subscribed to its make (whatever letter
\* case the subscriber and the listing used) and newCarListing to every open
\* socket; a creation rejected with 400 (no images) stores nothing and
\* publishes nothing.
C12_NewListingFanout ==
    [][req'.op = "create" =>
         LET id == req'.car IN
         /\ res'.status = 201 =>
               /\ ~cars[id].exists /\ cars'[id].exists
               /\ \E i \in 1..Len(emitted') :
                     /\ emitted'[i].event = "newLocalListing"
                     /\ emitted'[i].data.car = id
                     /\ LocationSubscribers(cars'[id]) \subseteq emitted'[i].to
               /\ \E i \in 1..Len(emitted') :
                     /\ emitted'[i].event = "newMakeListing"
                     /\ emitted'[i].data.car = id
                     /\ MakeSubscribers(cars'[id]) \subseteq emitted'[i].to
               /\ \E i \in 1..Len(emitted') :
                     /\ emitted'[i].event = "newCarListing"
                     /\ emitted'[i].data.car = id
                     /\ emitted'[i].to = {s \in SocketIds : sockets[s].open}
         /\ res'.status = 400 =>
               /\ cars' = cars /\ nextId' = nextId
               /\ emitted' = <<>>
    ]_vars

\* a listing spelled Kia / LA, CA was created while a socket was subscribed
\* to make KIA and to its location, and both events reached that socket
C12_Witness ==
    /\ req.op = "create"
    /\ res.status = 201
    /\ \E s \in SocketIds :
          /\ MakeRoom(<<"K", "I", "A">>) \in sockets[s].rooms
          /\ LocationRoom(LowerCaseLocation.city, LowerCaseLocation.state)
                \in sockets[s].rooms
          /\ s \in emitted[1].to
          /\ s \in emitted[2].to
          /\ s \in emitted[3].to

\* C13: emitToLocation, emitToMakeInterests or emitToUser on a room no open
\* socket has joined completes normally (one emit, no error response),
\* delivers to no socket and leaves every socket's rooms as they were.
C13_PublishToEmptyRoom ==
    [][req'.op \in {"emitToUser", "emitToLocation", "emitToMakeInterests"} =>
         /\ Len(emitted') = 1
         /\ res' = NoRes
         /\ sockets' = sockets
         /\ (\A s \in SocketIds :
                sockets[s].open => emitted'[1].room \notin sockets[s].rooms)
            => emitted'[1].to = {}
    ]_vars

\* emitToUser found nobody in the room while an open socket sat in other rooms
C13_Witness ==
    /\ req.op = "emitToUser"
    /\ emitted[1].to = {}
    /\ \E s \in SocketIds : sockets[s].open /\ sockets[s].rooms # {}

\* C14: a socket that connects with a valid token for U is, from the
\* connection step itself, identified as U and in U's personal room; one
\* that connects with no token or a token jwt.verify rejects is open, has no
\* identity and is in no room; joinUserRoom on a socket already in its
\* personal room changes no membership, and an emitToUser is one emit to a
\* set of sockets, so no socket gets it twice.
C14_AutoJoinPersonalRoom ==
    [][ /\ req'.op = "connect" =>
             LET s == req'.socket IN
             \A tok \in Tokens :
                Connect(s, tok) =>
                   /\ sockets'[s].open
                   /\ tok.kind = "valid" =>
                         /\ sockets'[s].user.id = tok.id
                         /\ UserRoom(tok.id) \in sockets'[s].rooms
                   /\ tok.kind # "valid" =>
                         /\ sockets'[s].user = NoUser
                         /\ sockets'[s].rooms = {}
        /\ req'.op = "joinUserRoom" =>
             LET s == req'.socket IN
             /\ \A t \in SocketIds \ {s} : sockets'[t] = sockets[t]
             /\ sockets[s].user = NoUser => sockets'[s] = sockets[s]
             /\ UserRoom(sockets[s].user.id) \in sockets[s].rooms
                   => sockets'[s] = sockets[s]
        /\ req'.op = "emitToUser" => Len(emitted') = 1
    ]_vars

\* an authenticated socket, in its personal room since connecting, sent
\* joinUserRoom
C14_Witness ==
    /\ req.op = "joinUserRoom"
    /\ sockets[req.socket].user # NoUser
    /\ UserRoom(sockets[req.socket].user.id) \in sockets[req.socket].rooms

\* C15: a socket that is not connected is in no room and is addressed by no
\* published event, and a socket that has just connected is in no room but
\* (when authenticated) its personal room: location, make and bodyType
\* rooms joined on an earlier connection are not restored.
C15_DisconnectLeavesAllRooms ==
    /\ \A s \in SocketIds :
          ~sockets[s].open =>
             /\ sockets[s].rooms = {}
             /\ \A i \in 1..Len(emitted) : s \notin emitted[i].to
    /\ req.op = "connect" =>
          sockets[req.socket].rooms
             \subseteq {UserRoom(sockets[req.socket].user.id)}

\* a socket disconnected while the other one stayed subscribed
C15_Witness ==
    /\ req.op = "disconnect"
    /\ ~sockets[req.socket].open
    /\ \E t \in SocketIds : sockets[t].open /\ sockets[t].rooms # {}

\* C16: in the leads listing a listing with no views has leadScore 0
\* whatever its inquiries, and one with views has the tenth nearest to
\* inquiries / views * 100 (the score is in tenths; a tie may go either
\* way); a request by the vendor is always answered 200.
C16_LeadScore ==
    req.op = "leads" =>
       /\ RoleOf(req.user) = "vendor" => res.status = 200
       /\ res.status = 200 =>
             /\ {l.car : l \in res.leads}
                   = {c \in CarIds : cars[c].seller = req.user /\ cars[c].inquiries > 0}
             /\ \A l \in res.leads :
                   LET car == cars[l.car]
                       diff == l.leadScore * car.views - car.inquiries * 1000
                   IN
                   /\ car.views = 0 => l.leadScore = 0
                   /\ car.views > 0 =>
                         /\ 2 * diff <= car.views
                         /\ 2 * (0 - diff) <= car.views

\* the leads of a vendor with a listing of 2 inquiries and no views, and
\* with one of 2 inquiries in 3 views (66.7)
C16_Witness ==
    /\ req.op = "leads"
    /\ res.status = 200
    /\ \E l \in res.leads :
          \/ cars[l.car].views = 0 /\ cars[l.car].inquiries = 2
          \/ cars[l.car].views = 3 /\ l.leadScore = 667

\* C18: lead urgency by daysListed: 31 is high, 20 is medium, 5 is low, and
\* at the boundaries 30 is medium and 14 is medium.
C18_UrgencyBoundaries ==
    (req.op = "leads" /\ res.status = 200) =>
       \A l \in res.leads :
          /\ l.daysListed = 31 => l.urgency = "high"
          /\ l.daysListed = 20 => l.urgency = "medium"
          /\ l.daysListed = 5 => l.urgency = "low"
          /\ l.daysListed = 30 => l.urgency = "medium"
          /\ l.daysListed = 14 => l.urgency = "medium"

\* C17: the dashboard answers a vendor 200 whatever the store holds; when
\* the vendor's listings have no inquiries conversionRate is the string "0",
\* when the vendor has no listing avgPrice is 0; otherwise avgPrice is the
\* total price of the vendor's listings divided by the number of them in
\* the four statuses, and conversionRate is sold / totalInquiries * 100
\* (read as the one-decimal string the handler formats).
C17_DashboardStats ==
    req.op = "dashboard" =>
       /\ RoleOf(req.user) = "vendor" => res.status = 200
       /\ res.status = 200 =>
             LET own == {c \in CarIds : cars[c].exists /\ cars[c].seller = req.user}
                 counted == Cardinality({c \in own : cars[c].status \in Statuses})
                 sold == Cardinality({c \in own : cars[c].status = "sold"})
                 totalValue == SumOf("price", own)
                 totalInquiries == SumOf("inquiries", own)
             IN
             /\ totalInquiries = 0 => res.insights.conversionRate = <<"0">>
             /\ own = {} => res.stats.avgPrice = 0
             /\ counted > 0 => res.stats.avgPrice * counted = totalValue
             /\ totalInquiries > 0 =>
                   res.insights.conversionRate = ToFixed1(sold * 100, totalInquiries)

\* the listings a pricing comparison of listing c for a vendor is to use:
\* active, same make and model, year within 2, not the vendor's own
Comparables(c, vendorId) ==
    {d \in CarIds : /\ cars[d].exists
                    /\ cars[d].status = "active"
                    /\ cars[d].make = cars[c].make
                    /\ cars[d].model = cars[c].model
                    /\ cars[d].year >= cars[c].year - 2
                    /\ cars[d].year <= cars[c].year + 2
                    /\ cars[d].seller # vendorId}

\* C19: the market mean a vendor's listing is compared against, in the
\* pricing insights of the recommendations and in the market position of
\* the report, is the mean price of the comparable listings of other
\* sellers; the vendor's own listings, the compared one included, never
\* enter it.
C19_MarketExcludesOwnListings ==
    /\ (req.op = "recommendations" /\ res.status = 200) =>
          \A p \in res.pricing :
             LET comp == Comparables(p.car, req.user) IN
             /\ comp # {}
             /\ p.marketPrice * Cardinality(comp) = SumOf("price", comp)
    /\ (req.op = "report" /\ res.status = 200) =>
          \A m \in res.marketComparisons :
             LET comp == Comparables(m.car, req.user) IN
             IF comp = {} THEN m.market = NoMarket
             ELSE /\ m.market # NoMarket
                  /\ m.market.count = Cardinality(comp)
                  /\ m.market.avgPrice * Cardinality(comp) = SumOf("price", comp)

\* C20: the report carries the high-priority stale-inventory advisory
\* exactly when the vendor has an active listing listed for more than 45
\* days with fewer than 30 views; 30 views, or 45 days or less, do not
\* trigger it.
C20_StaleInventoryThresholds ==
    (req.op = "report" /\ res.status = 200) =>
       ( (\E i \in 1..Len(res.recommendations) :
             /\ res.recommendations[i].type = "inventory"
             /\ res.recommendations[i].priority = "high")
         <=> (\E c \in CarIds :
                 /\ cars[c].exists
                 /\ cars[c].seller = req.user
                 /\ IsStale_Claimed(cars[c], Now)) )

\* C21: the realtime dashboard lists a Low Inventory alert exactly when the
\* vendor has fewer than 5 active listings, and every low-inventory alert,
\* that of the dashboard and the inventoryAlert of type low_inventory that
\* the vendor notification service publishes, has priority medium.
C21_LowInventoryAlert ==
    /\ (req.op = "realtime" /\ res.status = 200) =>
          LET active == {c \in DOMAIN cars : /\ cars[c].exists
                                             /\ cars[c].seller = req.user
                                             /\ cars[c].status = "active"}
              low == {i \in 1..Len(res.alerts) : res.alerts[i].title = "Low Inventory"}
          IN
          /\ low # {} <=> Cardinality(active) < 5
          /\ \A i \in low : res.alerts[i].priority = "medium"
    /\ \A i \in 1..Len(emitted) :
          (emitted[i].event = "inventoryAlert"
             /\ emitted[i].data.alertType = "low_inventory")
          => emitted[i].data.priority = "medium"

\* C22: a periodic task whose store query or socket server is unavailable
\* ends without an unhandled rejection, and the process stays alive to run
\* the task at its next tick.
C22_TaskFailuresAreCaught ==
    req.op \in {"dailyDigest", "marketTrends", "dailySummaryCheck", "weeklyStaleScan"}
    => /\ res.outcome # "unhandledRejection"
       /\ res.alive

\* C23: the status of every stored listing is one of active, pending, sold,
\* inactive, whatever status values create, PUT, PATCH and bulk-update
\* requests carried.
C23_StatusInEnum ==
    \A c \in CarIds : cars[c].exists => cars[c].status \in Statuses

IsPrefix(a, b) == Len(a) <= Len(b) /\ \A i \in 1..Len(a) : a[i] = b[i]

\* C24: across every step the priceHistory a listing had before the step is
\* a prefix of the one it has after it, an owner PUT whose body carries a
\* priceHistory field included.
C24_PriceHistoryAppendOnly ==
    [][\A c \in CarIds :
          (cars[c].exists /\ cars'[c].exists)
          => IsPrefix(cars[c].priceHistory, cars'[c].priceHistory)]_vars

\* C25: a PUT, DELETE or PATCH status request for a listing that does not
\* exist is answered 404, one by a user who is not the listing's seller is
\* answered 403, and both leave every listing (price history included) as
\* it was and publish nothing; only the seller is answered 200.
C25_OwnerOnlyMutations ==
    [][req'.op \in {"put", "delete", "patchStatus"} =>
         LET c == req'.car
             u == req'.user
         IN
         /\ ~cars[c].exists =>
               /\ res'.status = 404
               /\ cars' = cars
               /\ emitted' = <<>>
         /\ (cars[c].exists /\ cars[c].seller # u) =>
               /\ res'.status = 403
               /\ cars' = cars
               /\ emitted' = <<>>
         /\ res'.status = 200 => (cars[c].exists /\ cars[c].seller = u)
    ]_vars

\* a request on a stored listing by somebody else than its seller was refused
C25_Witness ==
    /\ req.op \in {"put", "delete", "patchStatus"}
    /\ res.status = 403
    /\ cars[req.car].exists
    /\ cars[req.car].seller # req.user

\* the sockets that joined the admins room: authenticated vendors
Admins ==
    {s \in SocketIds : /\ sockets[s].open
                       /\ AdminRoom \in sockets[s].rooms
                       /\ sockets[s].user # NoUser
                       /\ sockets[s].user.role = "vendor"}

\* C29: a newMessage event (it carries the customer's name and e-mail) is
\* delivered only to connections that joined the admins room, whichever of
\* POST /api/messages, the user reply or the sendMessage socket event
\* produced it.
C29_NewMessageOnlyToAdmins ==
    \A i \in 1..Len(emitted) :
        emitted[i].event = "newMessage" => emitted[i].to \subseteq Admins

\* C27: an inquiry request that succeeds publishes exactly one newInquiry
\* event to the personal room of the listing's seller.
C27_OneNewInquiryPerRequest ==
    (req.op = "inquiry" /\ res.status = 200)
    => Cardinality({i \in Published(emitted, "newInquiry") :
                       emitted[i].room = UserRoom(cars[req.car].seller)}) = 1

\* C28: within one inquiry request the counter increment is committed
\* before anything is published, and a performanceMilestone event is
\* published only after a newInquiry event, never before one.
C28_InquiryEventOrder ==
    [][req'.op = "inquiry" =>
         LET c == req'.car IN
         /\ emitted' # <<>> =>
               /\ cars[c].exists
               /\ cars'[c].inquiries = cars[c].inquiries + 1
         /\ \A m \in Published(emitted', "performanceMilestone") :
               /\ \E n \in Published(emitted', "newInquiry") : n < m
               /\ \A n \in Published(emitted', "newInquiry") : n < m
    ]_vars

\* the fifth inquiry: the increment, the new-inquiry events, then the milestone
C28_Witness ==
    /\ req.op = "inquiry"
    /\ res.status = 200
    /\ cars[req.car].exists
    /\ cars[req.car].inquiries = MilestoneInquiries
    /\ Published(emitted, "newInquiry") # {}
    /\ Published(emitted, "performanceMilestone") = {Len(emitted)}

\* the requests that incremented the counter of listing c
Incremented(c) ==
    {k \in DOMAIN calls : calls[k].car = c /\ calls[k].pc \notin {"inc"}
                          /\ calls[k].status # 404}

\* C26: when concurrent inquiry requests on one listing have all been
\* answered 200 and together took its counter from below 5 to 5 or more,
\* exactly one performanceMilestone event was published, however their
\* steps interleaved.
C26_OneMilestonePerCrossing ==
    \A c \in CarIds :
        LET before == cars[c].inquiries - Cardinality(Incremented(c)) IN
        ( /\ cars[c].exists
          /\ Incremented(c) # {}
          /\ \A k \in DOMAIN calls : calls[k].pc = "done" /\ calls[k].status # 500
          /\ before < MilestoneInquiries
          /\ cars[c].inquiries >= MilestoneInquiries )
        => Cardinality(Published(emitted, "performanceMilestone")) = 1

\* the active listings of other sellers with the make, model and year of c
SameYearOthers(c, vendorId) ==
    {d \in CarIds : /\ cars[d].exists
                    /\ cars[d].status = "active"
                    /\ cars[d].make = cars[c].make
                    /\ cars[d].model = cars[c].model
                    /\ cars[d].year = cars[c].year
                    /\ cars[d].seller # vendorId}

\* the vendor's active listings priced more than 1.15 times the mean price
\* of an existing comparison
AboveMarket(vendorId) ==
    {c \in CarIds :
        /\ cars[c].exists
        /\ cars[c].seller = vendorId
        /\ cars[c].status = "active"
        /\ SameYearOthers(c, vendorId) # {}
        /\ cars[c].price * 100 * Cardinality(SameYearOthers(c, vendorId))
              > SumOf("price", SameYearOthers(c, vendorId)) * 115}

=============================================================================
